---- MODULE Spec2Model ----
(***************************************************************************)
(* Model of horizon's pr-review tool (src/pr-review/pr-review.cpp).        *)
(*                                                                         *)
(* The program is one batch run of main(): it fills the table git_files    *)
(* from the git diff, defines the SQL views git_files_view, top_parts,     *)
(* parts_tree, derived_parts_tree and all_parts_tree over the pool         *)
(* database and writes the sections of the review report one after the    *)
(* other.  The state is the content of the tables the run reads, the rows  *)
(* the recursive queries have produced so far, and what each section has   *)
(* written.  The tables are read-only during the run, so a view is         *)
(* evaluated once, where the run first queries it.                         *)
(***************************************************************************)
EXTENDS Integers, Sequences, FiniteSets, TLC

VARIABLES
    git_files,          \* TEMP TABLE git_files(git_filename, status)
    dependencies,       \* pool table dependencies(type, uuid, dep_type, dep_uuid)
    parts,              \* pool table parts(uuid, base, MPN)
    pc,                 \* position of main()
    items_out,          \* rows written under "# Items in this PR"
    nonitems_out,       \* paths written under "# Non-items"
    where_used,         \* rows of parts_tree's recursive table where_used
    wu_level,           \* level of the rows the recursion extracts next
    overview,           \* rows fetched by the "Parts overview" loop, in order
    derived_where_used, \* rows of derived_parts_tree's recursive table
    dwu_level,          \* level of the rows that recursion extracts next
    notassoc_out,       \* rows written under "# Items not associated..."
    derived_out,        \* rows written under "# Derived parts"
    details_out,        \* parts written under "## Parts"
    images,             \* file names written into the images directory
    recording,          \* CanvasCairo2::recording_surface: the strokes recorded
    transform,          \* Canvas::transform, the placement a drawing is loaded with
    grow,               \* the margin the caller of get_image_surface asks for
    isurf               \* the image surface get_image_surface returns

vars == <<git_files, dependencies, parts, pc, items_out, nonitems_out,
          where_used, wu_level, overview, derived_where_used, dwu_level,
          notassoc_out, derived_out, details_out, images,
          recording, transform, grow, isurf>>

(***************************************************************************)
(* Bounds of the model.                                                    *)
(***************************************************************************)
\* most change entries of one git diff
MaxChanged == 2
\* most rows of the dependencies table
MaxEdges == 3
\* most strokes of one recording
MaxLines == 2
\* deepest level the recursive queries are followed to; a recursion that
\* still has rows to extract at this level is one that does not end (the
\* longest acyclic chain of the tables below has three edges)
MaxLevel == 5

(***************************************************************************)
(* Values.                                                                 *)
(***************************************************************************)
NIL == "00000000-0000-0000-0000-000000000000"
\* SQL NULL, as a LEFT JOIN yields it for the columns of a missing row
NULL == "<NULL>"

\* git_delta_t (git2.h)
GIT_DELTA_ADDED == 1
GIT_DELTA_DELETED == 2
GIT_DELTA_MODIFIED == 3

Statuses == {GIT_DELTA_ADDED, GIT_DELTA_DELETED, GIT_DELTA_MODIFIED}

\* static std::string delta_to_string(git_delta_t delta)
delta_to_string_swapped(delta) ==
    CASE delta = GIT_DELTA_ADDED -> <<"Modified">>
      [] delta = GIT_DELTA_MODIFIED -> <<"New">>
      [] OTHER -> <<"Unknown (", delta, ")">>

delta_to_string(delta) ==
    CASE delta = GIT_DELTA_ADDED -> <<"New">>
      [] delta = GIT_DELTA_MODIFIED -> <<"Modified">>
      [] OTHER -> <<"Unknown (", delta, ")">>

(***************************************************************************)
(* The pool database the run reads.  all_items_view, symbols and models    *)
(* are the same in every run of the model; git_files, dependencies and     *)
(* the base column of parts vary with the initial state.                   *)
(***************************************************************************)
Item(t, u, n, f) == [type |-> t, uuid |-> u, name |-> n, filename |-> f]

\* pool view all_items_view(type, uuid, name, filename)
all_items_view ==
    { Item("part",     "P1",  "R1",    "parts/R1.json"),
      Item("part",     "P2",  "R2",    "parts/R2.json"),
      Item("entity",   "E1",  "RES",   "entities/res.json"),
      Item("unit",     "U1",  "res",   "units/res.json"),
      Item("symbol",   "Y1",  "res-h", "symbols/res-h.json"),
      Item("symbol",   "Y2",  "res-v", "symbols/res-v.json"),
      Item("package",  "K1",  "0603",  "packages/0603/package.json"),
      Item("padstack", "S2",  "S2",    "padstacks/s2.json"),
      Item("padstack", "S10", "S10",   "padstacks/s10.json") }

\* pool table symbols(uuid, unit, name); text_placements is what
\* sym.text_placements.size() != 0 is for the loaded symbol
symbols ==
    { [uuid |-> "Y1", unit |-> "U1", name |-> "res-h", text_placements |-> FALSE],
      [uuid |-> "Y2", unit |-> "U1", name |-> "res-v", text_placements |-> TRUE] }

\* pool table models(package_uuid, model_filename)
models ==
    { [package_uuid |-> "K1", model_filename |-> "3d/0603.step"] }

PartUuids == {"P1", "P2"}

MPN(u) == (CHOOSE i \in all_items_view : i.type = "part" /\ i.uuid = u).name

\* every path a change entry of the model can name: the files of the
\* items, the model file and one file the pool knows nothing of
ItemPaths == {i.filename : i \in all_items_view}
               \cup {m.model_filename : m \in models}

Paths == ItemPaths \cup {"README.md"}

Dep(t, u, dt, du) == [type |-> t, uuid |-> u, dep_type |-> dt, dep_uuid |-> du]

\* the dependencies of a well-formed pool over the items above
WellFormedDeps ==
    { Dep("part", "P1", "entity", "E1"),   Dep("part", "P1", "package", "K1"),
      Dep("part", "P2", "entity", "E1"),   Dep("part", "P2", "package", "K1"),
      Dep("entity", "E1", "unit", "U1"),
      Dep("package", "K1", "padstack", "S2"),
      Dep("package", "K1", "padstack", "S10") }

\* the rows the dependencies table is drawn from: rows of a well-formed
\* pool, the row of a derived part on its base (P2 on P1), and rows of a
\* corrupt pool: a cycle (P1 on P2) and a unit UX that has no record
CandidateDeps ==
    { Dep("part", "P1", "entity", "E1"),   Dep("part", "P1", "package", "K1"),
      Dep("part", "P2", "entity", "E1"),   Dep("part", "P2", "part", "P1"),
      Dep("entity", "E1", "unit", "U1"),
      Dep("package", "K1", "padstack", "S2"),
      Dep("package", "K1", "padstack", "S10"),
      Dep("part", "P1", "part", "P2"),
      Dep("entity", "E1", "unit", "UX") }

(***************************************************************************)
(* CREATE TEMP VIEW git_files_view                                         *)
(***************************************************************************)
\* the right-hand side of the join: all_items_view UNION ALL one model_3d
\* row per distinct model file
Lookup ==
    all_items_view \cup
    { Item("model_3d", NIL, "", m.model_filename) : m \in models }

GitFilesViewOf(gf) ==
    { [type |-> p[2].type, uuid |-> p[2].uuid, name |-> p[2].name,
       filename |-> p[2].filename, status |-> p[1].status] :
        p \in {q \in gf \X Lookup : q[2].filename = q[1].git_filename} }

git_files_view == GitFilesViewOf(git_files)

\* "SELECT git_filename FROM git_files LEFT JOIN all_items_view ON
\*  filename=git_filename WHERE filename is NULL"
NonItems ==
    { g.git_filename : g \in
        {h \in git_files :
            {i \in all_items_view : i.filename = h.git_filename} = {}} }

\* a LEFT JOIN: the matching rows, or one row of NULLs when there is none
LeftJoin(matches, nullrow) == IF matches = {} THEN {nullrow} ELSE matches

(***************************************************************************)
(* CREATE TEMP VIEW top_parts                                              *)
(***************************************************************************)
TopPartsBaseOnly(gfv, pts) ==
    { g.uuid : g \in
        { h \in gfv :
            /\ h.type = "part"
            /\ \E p \in LeftJoin({q \in pts : q.uuid = h.uuid},
                                 [uuid |-> NULL, base |-> NULL]) :
               \E gfv2 \in LeftJoin({q \in gfv : q.uuid = p.base},
                                    [uuid |-> NULL]) :
                  gfv2.uuid = NULL } }

TopPartsOf(gfv, pts) ==
    { g.uuid : g \in
        { h \in gfv :
            /\ h.type = "part"
            /\ \E p \in LeftJoin({q \in pts : q.uuid = h.uuid},
                                 [uuid |-> NULL, base |-> NULL]) :
               \E gfv2 \in LeftJoin({q \in gfv : q.uuid = p.base},
                                    [uuid |-> NULL]) :
                  gfv2.uuid = NULL \/ p.base = NIL } }

top_parts == TopPartsOf(git_files_view, parts)

(***************************************************************************)
(* CREATE TEMP VIEW parts_tree                                             *)
(***************************************************************************)
\* the non-recursive SELECT of where_used
WhereUsedSeed ==
    { [typex |-> "part", uuidx |-> u, level |-> 0, root |-> u] : u \in top_parts }

\* the recursive SELECT of where_used, run on the rows of one level
WhereUsedStep(rows) ==
    { [typex |-> p[1].dep_type, uuidx |-> p[1].dep_uuid,
       level |-> p[2].level + 1, root |-> p[2].root] :
        p \in { q \in dependencies \X rows :
                  q[1].type = q[2].typex /\ q[1].uuid = q[2].uuidx } }

Frontier == {w \in where_used : w.level = wu_level}

\* the CASE expression of column type_order
TypeOrder(t) ==
    CASE t = "part" -> 0
      [] t = "entity" -> 1
      [] t = "unit" -> 2
      [] t = "package" -> 4
      [] t = "padstack" -> 6
      [] OTHER -> -1

\* the correlated subquery of column in_pr
InPr(t, u) ==
    Cardinality({g \in git_files_view : g.uuid = u /\ g.type = t})

TreeRow(t, n, l, o, i, u, r) ==
    [type |-> t, name |-> n, level |-> l, type_order |-> o, in_pr |-> i,
     uuid |-> u, root |-> r]

parts_tree ==
    { TreeRow(p[1].typex, p[2].name, p[1].level, TypeOrder(p[1].typex),
              InPr(p[1].typex, p[1].uuidx), p[1].uuidx, p[1].root) :
        p \in UNION { {<<w, i>> : i \in
                         LeftJoin({j \in all_items_view :
                                      j.type = w.typex /\ j.uuid = w.uuidx},
                                  [name |-> NULL])} : w \in where_used } }

(***************************************************************************)
(* CREATE TEMP VIEW derived_parts_tree                                     *)
(***************************************************************************)
DerivedSeed ==
    { [uuidx |-> u, level |-> 0] : u \in top_parts }

DerivedStep(rows) ==
    { [uuidx |-> p[1].uuid, level |-> p[2].level + 1] :
        p \in { q \in parts \X rows : q[1].base = q[2].uuidx } }

DerivedFrontier == {w \in derived_where_used : w.level = dwu_level}

derived_parts_tree ==
    { [MPN |-> p[2].MPN, level |-> p[1].level,
       in_pr |-> InPr("part", p[1].uuidx), uuid |-> p[1].uuidx] :
        p \in UNION { {<<w, i>> : i \in
                         LeftJoin({j \in parts : j.uuid = w.uuidx},
                                  [MPN |-> NULL])} : w \in derived_where_used } }

(***************************************************************************)
(* CREATE TEMP VIEW all_parts_tree                                         *)
(***************************************************************************)
\* the three SELECTs of the UNION, before the ORDER BY
AllPartsTreeRows ==
    parts_tree
    \cup { TreeRow("model_3d", p[2].model_filename, p[1].level + 1, 5,
                   p[1].in_pr, "", p[1].root) :
             p \in { q \in parts_tree \X models :
                       q[2].package_uuid = q[1].uuid /\ q[1].type = "package" } }
    \cup { TreeRow("symbol", p[2].name, p[1].level + 1, 3,
                   p[1].in_pr, p[2].uuid, p[1].root) :
             p \in { q \in parts_tree \X symbols :
                       q[2].unit = q[1].uuid /\ q[1].type = "unit" } }

\* the BINARY collation on the uuids that are roots
TextRank(u) == CASE u = "P1" -> 1 [] u = "P2" -> 2 [] OTHER -> 0

\* ORDER BY root, type_order, level
OrderKeyLeqNoTypeOrder(a, b) ==
    \/ TextRank(a.root) < TextRank(b.root)
    \/ /\ a.root = b.root
       /\ a.level <= b.level

OrderKeyLeq(a, b) ==
    \/ TextRank(a.root) < TextRank(b.root)
    \/ /\ a.root = b.root
       /\ \/ a.type_order < b.type_order
          \/ /\ a.type_order = b.type_order
             /\ a.level <= b.level

\* every sequence of the rows that the ORDER BY allows: SQL leaves the
\* order of rows with equal keys to the engine
RECURSIVE OrderedBy(_)
OrderedBy(rows) ==
    IF rows = {} THEN {<<>>}
    ELSE UNION { { <<r>> \o t : t \in OrderedBy(rows \ {r}) } :
                   r \in {m \in rows : \A o \in rows : OrderKeyLeq(m, o)} }

all_parts_tree == OrderedBy(AllPartsTreeRows)

(***************************************************************************)
(* The queries and loops of the report sections.                           *)
(***************************************************************************)
\* Query::get<std::string> of a column: a NULL column reads as ""
GetString(v) == IF v = NULL THEN "" ELSE v

\* static std::string surround_if(prefix, suffix, s, cond): whether s is
\* wrapped (s is never empty where the report calls it with a type name)
surround_if(s, cond) == s # "" /\ cond

\* one row of git_files_view as the loop of lines 232-242 fetches it, its
\* status as the table's State column shows it
ItemLine(g) ==
    [state |-> delta_to_string(g.status), type |-> g.type, uuid |-> g.uuid,
     name |-> g.name, filename |-> g.filename]

\* the line written for one row of all_parts_tree (lines 318-327)
OverviewLine(r) ==
    [kind |-> "item", indent |-> r.level, type |-> r.type,
     name |-> GetString(r.name),
     bold |-> surround_if(r.type, r.in_pr # 0)]

\* int strcmp_natural(a, b) of util: names are compared chunk by chunk, a
\* chunk of digits by its value.  NameText and NameNumber split the names
\* of the pool above into their text and their embedded number.
NameText(n) ==
    CASE n \in {"S2", "S10"} -> "S"
      [] n \in {"R1", "R2"} -> "R"
      [] n = "0603" -> ""
      [] OTHER -> n

NameNumber(n) ==
    CASE n = "S2" -> 2
      [] n = "S10" -> 10
      [] n = "R1" -> 1
      [] n = "R2" -> 2
      [] n = "0603" -> 603
      [] OTHER -> -1

\* the order of the texts of the names that share a key in the overview
NameTextRank(t) ==
    CASE t = "" -> 0
      [] t = "R" -> 1
      [] t = "S" -> 2
      [] t = "res" -> 3
      [] t = "res-h" -> 4
      [] t = "res-v" -> 5
      [] OTHER -> 6

strcmp_natural(a, b) ==
    IF NameText(a) # NameText(b)
    THEN (IF NameTextRank(NameText(a)) < NameTextRank(NameText(b)) THEN -1 ELSE 1)
    ELSE IF NameNumber(a) < NameNumber(b) THEN -1
    ELSE IF NameNumber(a) > NameNumber(b) THEN 1
    ELSE 0

\* the query of "# Items not associated with any part" (lines 332-338)
NotAssociatedByType(rows) ==
    { [type |-> g.type, name |-> g.name] : g \in
        { h \in git_files_view :
            \E a \in LeftJoin({r \in rows : h.type = r.type}, [uuid |-> NULL]) :
            \E d \in LeftJoin({r \in derived_parts_tree :
                                  h.uuid = r.uuid /\ h.type = "part"},
                              [uuid |-> NULL]) :
               a.uuid = NULL /\ d.uuid = NULL } }

NotAssociated(rows) ==
    { [type |-> g.type, name |-> g.name] : g \in
        { h \in git_files_view :
            \E a \in LeftJoin({r \in rows :
                                  h.uuid = r.uuid /\ h.type = r.type},
                              [uuid |-> NULL]) :
            \E d \in LeftJoin({r \in derived_parts_tree :
                                  h.uuid = r.uuid /\ h.type = "part"},
                              [uuid |-> NULL]) :
               a.uuid = NULL /\ d.uuid = NULL } }

\* the COUNT(*) of lines 353-356
n_derived ==
    Cardinality(
        { p \in { q \in git_files_view \X
                        { [uuid |-> r.uuid, base |-> r.base] : r \in parts } :
                    q[1].uuid = q[2].uuid /\ q[1].type = "part" } :
            p[2].base # NIL })

\* the line written for one row of derived_parts_tree (lines 367-375)
DerivedLine(r) ==
    [indent |-> r.level, name |-> GetString(r.MPN),
     bold |-> surround_if(GetString(r.MPN), r.in_pr # 0)]

\* the heading lines of "## Parts" for one part (lines 413-416)
DetailsLine(u) ==
    LET part == CHOOSE p \in parts : p.uuid = u
    IN  [uuid |-> u, MPN |-> part.MPN, inherits_from |-> part.base]

\* "SELECT DISTINCT uuid from git_files_view where type = 'unit'"
ChangedUnits ==
    { g.uuid : g \in {h \in git_files_view : h.type = "unit"} }

\* "SELECT DISTINCT uuid from git_files_view where type = 'package'"
PackagesOfTree ==
    { r.uuid : r \in {t \in parts_tree : t.type = "package"} }

ChangedPackages ==
    { g.uuid : g \in {h \in git_files_view : h.type = "package"} }

\* the image files written for one symbol (lines 590-621); a file name is
\* kept as its parts: <<"sym", uuid>> is sym_<uuid>.png and
\* <<"sym", uuid, "m", 90>> is sym_<uuid>_m90.png
SymbolImagesNoMirror(sym) ==
    IF ~sym.text_placements
    THEN { <<"sym", sym.uuid>> }
    ELSE { <<"sym", sym.uuid, "n", angle>> : angle \in {0, 90, 180, 270} }

SymbolImages(sym) ==
    IF ~sym.text_placements
    THEN { <<"sym", sym.uuid>> }
    ELSE { <<"sym", sym.uuid, mirror, angle>> :
             mirror \in {"n", "m"}, angle \in {0, 90, 180, 270} }

\* the image file written for one package (lines 685-688)
PackageImage(u) == <<"pkg", u>>

(***************************************************************************)
(* CanvasCairo2 (canvas_cairo2.cpp).  Device coordinates are kept in half   *)
(* device units, so that the coordinates and extents of the model are       *)
(* integers.                                                                *)
(***************************************************************************)
\* logical units of one half device unit: the constructor scales by 2e-5
HalfUnit == 25000
\* cr->set_line_width(0.1e6)
LineWidth == 100000

\* the logical coordinates the strokes of the model are drawn between
Coords == {0, 25000, 50000}

Points == { [x |-> cx, y |-> cy] : cx \in Coords, cy \in Coords }

\* the placements a drawing is loaded with
Placements == { [mirror |-> FALSE, angle |-> 0], [mirror |-> TRUE, angle |-> 90] }

\* the margins the callers pass: none (packages) and 1.25_mm (symbols)
Margins == {0, 1250000}

\* Placement::transform: rotation by the angle, then the mirroring of x
PlacementTransform(pl, p) ==
    LET r == CASE pl.angle = 0 -> p
               [] pl.angle = 90 -> [x |-> -p.y, y |-> p.x]
               [] pl.angle = 180 -> [x |-> -p.x, y |-> -p.y]
               [] pl.angle = 270 -> [x |-> p.y, y |-> -p.x]
    IN  IF pl.mirror THEN [x |-> -r.x, y |-> r.y] ELSE r

\* cr->scale(2e-5, -2e-5): a logical point in half device units
ToDevice(p) == [x |-> p.x \div HalfUnit, y |-> -(p.y \div HalfUnit)]

\* void CanvasCairo2::img_line(p0, p1, width, layer, tr): the stroke recorded
img_line(p0, p1, tr) ==
    LET q0 == IF tr THEN PlacementTransform(transform, p0) ELSE p0
        q1 == IF tr THEN PlacementTransform(transform, p1) ELSE p1
    IN  [from |-> ToDevice(q0), to |-> ToDevice(q1),
         width |-> LineWidth \div HalfUnit]

Min(S) == CHOOSE m \in S : \A o \in S : m <= o
Max(S) == CHOOSE m \in S : \A o \in S : m >= o

\* cairo_recording_surface_ink_extents: the bounding box of the strokes,
\* each with its round caps; all zero for an empty recording
InkExtents(rec) ==
    IF rec = {} THEN [x0 |-> 0, y0 |-> 0, width |-> 0, height |-> 0]
    ELSE LET xlo == Min({ Min({l.from.x, l.to.x}) - l.width \div 2 : l \in rec })
             xhi == Max({ Max({l.from.x, l.to.x}) + l.width \div 2 : l \in rec })
             ylo == Min({ Min({l.from.y, l.to.y}) - l.width \div 2 : l \in rec })
             yhi == Max({ Max({l.from.y, l.to.y}) + l.width \div 2 : l \in rec })
         IN  [x0 |-> xlo, y0 |-> ylo, width |-> xhi - xlo, height |-> yhi - ylo]

\* no surface yet
NoSurface == [width |-> -1, height |-> -1, src_x |-> 0, src_y |-> 0]

\* Cairo::RefPtr<Cairo::Surface> CanvasCairo2::get_image_surface(): an
\* image surface of the size of the ink extents (the doubles are cut to
\* int), the recording painted at (-x0, -y0)
get_image_surface ==
    LET e == InkExtents(recording)
    IN  [width |-> e.width \div 2, height |-> e.height \div 2,
         src_x |-> -e.x0, src_y |-> -e.y0]

(***************************************************************************)
(* Initial states: git_files after the git diff, and the pool.             *)
(***************************************************************************)
\* the contents of git_files: at most one entry per path
ChangeSets(paths, statuses) ==
    UNION { { { [git_filename |-> p, status |-> f[p]] : p \in S } :
                f \in [S -> statuses] } :
            S \in {T \in SUBSET paths : Cardinality(T) <= MaxChanged} }

PartsWith(b1, b2) ==
    { [uuid |-> "P1", base |-> b1, MPN |-> MPN("P1")],
      [uuid |-> "P2", base |-> b2, MPN |-> MPN("P2")] }

Db(gf, deps, pts) == [git_files |-> gf, dependencies |-> deps, parts |-> pts]

\* a well-formed pool, any change set with any change kinds
ResolveDbs ==
    { Db(gf, WellFormedDeps, PartsWith(NIL, NIL)) :
        gf \in ChangeSets(Paths, Statuses) }

\* any dependencies table, any modified items
ClosureDbs ==
    { Db(gf, deps, PartsWith(NIL, NIL)) :
        gf \in ChangeSets(ItemPaths, {GIT_DELTA_MODIFIED}),
        deps \in {D \in SUBSET CandidateDeps : Cardinality(D) <= MaxEdges} }

\* any base relation among the parts, any modified items
DeriveDbs ==
    { Db(gf, WellFormedDeps, PartsWith(b1, b2)) :
        gf \in ChangeSets(ItemPaths, {GIT_DELTA_MODIFIED}),
        b1 \in {NIL} \cup PartUuids, b2 \in {NIL} \cup PartUuids }

Init ==
    /\ \E db \in ResolveDbs \cup ClosureDbs \cup DeriveDbs :
          /\ git_files = db.git_files
          /\ dependencies = db.dependencies
          /\ parts = db.parts
    /\ pc = "items"
    /\ items_out = {}
    /\ nonitems_out = {}
    /\ where_used = {}
    /\ wu_level = 0
    /\ overview = <<>>
    /\ derived_where_used = {}
    /\ dwu_level = 0
    /\ notassoc_out = {}
    /\ derived_out = {}
    /\ details_out = {}
    /\ images = {}
    /\ recording = {}
    /\ transform = [mirror |-> FALSE, angle |-> 0]
    /\ grow = 0
    /\ isurf = NoSurface

tables == <<git_files, dependencies, parts>>

canvas == <<recording, transform, grow, isurf>>

(***************************************************************************)
(* The steps of main().                                                    *)
(***************************************************************************)
\* "# Items in this PR" (lines 228-244)
ListItems ==
    /\ pc = "items"
    /\ items_out' = { ItemLine(g) : g \in git_files_view }
    /\ pc' = "nonitems"
    /\ UNCHANGED <<tables, canvas, nonitems_out, where_used, wu_level, overview,
                   derived_where_used, dwu_level, notassoc_out, derived_out,
                   details_out, images>>

\* "# Non-items" (lines 246-259)
ListNonItems ==
    /\ pc = "nonitems"
    /\ nonitems_out' = NonItems
    /\ pc' = "parts_tree_seed"
    /\ UNCHANGED <<tables, canvas, items_out, where_used, wu_level, overview,
                   derived_where_used, dwu_level, notassoc_out, derived_out,
                   details_out, images>>

\* the query of line 317 starts parts_tree: the rows of top_parts
PartsTreeSeed ==
    /\ pc = "parts_tree_seed"
    /\ where_used' = WhereUsedSeed
    /\ wu_level' = 0
    /\ pc' = "parts_tree"
    /\ UNCHANGED <<tables, canvas, items_out, nonitems_out, overview,
                   derived_where_used, dwu_level, notassoc_out, derived_out,
                   details_out, images>>

\* one round of the recursion: the rows of the current level are extracted
\* and the rows they produce are added (UNION: a row is added once)
PartsTreeStep ==
    /\ pc = "parts_tree"
    /\ Frontier # {}
    /\ wu_level < MaxLevel
    /\ where_used' = where_used \cup WhereUsedStep(Frontier)
    /\ wu_level' = wu_level + 1
    /\ UNCHANGED <<tables, canvas, pc, items_out, nonitems_out, overview,
                   derived_where_used, dwu_level, notassoc_out, derived_out,
                   details_out, images>>

\* "# Parts overview": the recursion has no row left, the rows of
\* all_parts_tree are fetched in the order of the view (lines 314-328)
Overview ==
    /\ pc = "parts_tree"
    /\ Frontier = {}
    /\ \E rows \in all_parts_tree : overview' = rows
    /\ pc' = "derived_seed"
    /\ UNCHANGED <<tables, canvas, items_out, nonitems_out, where_used, wu_level,
                   derived_where_used, dwu_level, notassoc_out, derived_out,
                   details_out, images>>

\* the query of line 332 starts derived_parts_tree
DerivedTreeSeed ==
    /\ pc = "derived_seed"
    /\ derived_where_used' = DerivedSeed
    /\ dwu_level' = 0
    /\ pc' = "derived_tree"
    /\ UNCHANGED <<tables, canvas, items_out, nonitems_out, where_used, wu_level,
                   overview, notassoc_out, derived_out, details_out, images>>

\* one round of the recursion of derived_parts_tree
DerivedTreeStep ==
    /\ pc = "derived_tree"
    /\ DerivedFrontier # {}
    /\ dwu_level < MaxLevel
    /\ derived_where_used' = derived_where_used \cup DerivedStep(DerivedFrontier)
    /\ dwu_level' = dwu_level + 1
    /\ UNCHANGED <<tables, canvas, pc, items_out, nonitems_out, where_used, wu_level,
                   overview, notassoc_out, derived_out, details_out, images>>

\* "# Items not associated with any part" (lines 330-347)
ListNotAssociated ==
    /\ pc = "derived_tree"
    /\ DerivedFrontier = {}
    /\ notassoc_out' = NotAssociated(AllPartsTreeRows)
    /\ pc' = "derived_parts"
    /\ UNCHANGED <<tables, canvas, items_out, nonitems_out, where_used, wu_level,
                   overview, derived_where_used, dwu_level, derived_out,
                   details_out, images>>

\* "# Derived parts", written if a changed part has a base (lines 350-406)
ListDerivedParts ==
    /\ pc = "derived_parts"
    /\ derived_out' = IF n_derived # 0
                      THEN { DerivedLine(r) : r \in derived_parts_tree }
                      ELSE derived_out
    /\ pc' = "details"
    /\ UNCHANGED <<tables, canvas, items_out, nonitems_out, where_used, wu_level,
                   overview, derived_where_used, dwu_level, notassoc_out,
                   details_out, images>>

\* "# Details", "## Parts": one section per row of derived_parts_tree
\* (lines 408-495)
DetailsParts ==
    /\ pc = "details"
    /\ details_out' = { DetailsLine(r.uuid) : r \in derived_parts_tree }
    /\ pc' = "units"
    /\ UNCHANGED <<tables, canvas, items_out, nonitems_out, where_used, wu_level,
                   overview, derived_where_used, dwu_level, notassoc_out,
                   derived_out, images>>

\* "## Units": the symbols of every changed unit are drawn (lines 535-629)
Units ==
    /\ pc = "units"
    /\ images' = images \cup
          UNION { SymbolImages(sym) : sym \in
                    { s \in symbols : s.unit \in ChangedUnits } }
    /\ pc' = "packages"
    /\ UNCHANGED <<tables, canvas, items_out, nonitems_out, where_used, wu_level,
                   overview, derived_where_used, dwu_level, notassoc_out,
                   derived_out, details_out>>

\* "## Packages": every changed package is drawn (lines 631-691)
Packages ==
    /\ pc = "packages"
    /\ images' = images \cup
          { PackageImage(u) : u \in ChangedPackages }
    /\ pc' = "done"
    /\ UNCHANGED <<tables, canvas, items_out, nonitems_out, where_used, wu_level,
                   overview, derived_where_used, dwu_level, notassoc_out,
                   derived_out, details_out>>

Next ==
    \/ ListItems
    \/ ListNonItems
    \/ PartsTreeSeed
    \/ PartsTreeStep
    \/ Overview
    \/ DerivedTreeSeed
    \/ DerivedTreeStep
    \/ ListNotAssociated
    \/ ListDerivedParts
    \/ DetailsParts
    \/ Units
    \/ Packages

Spec == Init /\ [][Next]_vars

(***************************************************************************)
(* One use of a CanvasCairo2: strokes are recorded, then the caller asks   *)
(* for the image surface (lines 591-594, 611-617 and 685-688 of            *)
(* pr-review.cpp).                                                         *)
(***************************************************************************)
report == <<items_out, nonitems_out, where_used, wu_level, overview,
            derived_where_used, dwu_level, notassoc_out, derived_out,
            details_out, images>>

InitCanvas ==
    /\ git_files = {}
    /\ dependencies = {}
    /\ parts = PartsWith(NIL, NIL)
    /\ pc = "canvas"
    /\ items_out = {}
    /\ nonitems_out = {}
    /\ where_used = {}
    /\ wu_level = 0
    /\ overview = <<>>
    /\ derived_where_used = {}
    /\ dwu_level = 0
    /\ notassoc_out = {}
    /\ derived_out = {}
    /\ details_out = {}
    /\ images = {}
    /\ recording = {}
    /\ transform \in Placements
    /\ grow = 0
    /\ isurf = NoSurface

\* ca.load(...): the drawing emits one more line
ImgLine ==
    /\ pc = "canvas"
    /\ Cardinality(recording) < MaxLines
    /\ \E p0 \in Points : \E p1 \in Points : \E tr \in BOOLEAN :
          recording' = recording \cup {img_line(p0, p1, tr)}
    /\ UNCHANGED <<tables, report, pc, transform, grow, isurf>>

\* ca.get_image_surface(scale, margin): the caller names a margin, the
\* function has no parameter to take it
GetImageSurface ==
    /\ pc = "canvas"
    /\ \E margin \in Margins : grow' = margin
    /\ isurf' = get_image_surface
    /\ pc' = "rasterized"
    /\ UNCHANGED <<tables, report, recording, transform>>

NextCanvas ==
    \/ ImgLine
    \/ GetImageSurface

SpecCanvas == InitCanvas /\ [][NextCanvas]_vars

(***************************************************************************)
(* Properties.                                                             *)
(***************************************************************************)
\* where main() is once where_used holds the rows of top_parts
Seeded == pc \notin {"items", "nonitems", "parts_tree_seed"}

\* where main() is once the "Parts overview" is written
OverviewWritten == pc \notin {"items", "nonitems", "parts_tree_seed", "parts_tree"}

\* the roots: where_used gets its rows of level 0 from top_parts only
Roots == { w.uuidx : w \in {x \in where_used : x.level = 0} }

Changed(t, u) == \E g \in git_files_view : g.type = t /\ g.uuid = u

BaseOf(u) == (CHOOSE p \in parts : p.uuid = u).base

\* C1: a record is a root if and only if it is a changed record of type
\* part and its base is the nil UUID or is not the uuid of a changed record
C1_RootSelection ==
    Seeded =>
        \A r \in Lookup :
            (r.type = "part" /\ r.uuid \in Roots)
            <=> /\ r.type = "part"
                /\ Changed("part", r.uuid)
                /\ \/ BaseOf(r.uuid) = NIL
                   \/ ~ \E g \in git_files_view : g.uuid = BaseOf(r.uuid)

\* a derived part and its base are both changed: the base is the only root
C1_Witness ==
    /\ pc = "parts_tree"
    /\ Changed("part", "P1") /\ Changed("part", "P2")
    /\ BaseOf("P2") = "P1" /\ BaseOf("P1") = NIL
    /\ Roots = {"P1"}

\* C2: every row of the display tree is marked in-change if and only if a
\* record of its type and uuid is in git_files_view
C2_InPrIffChanged ==
    \A i \in 1..Len(overview) :
        (overview[i].in_pr # 0) <=> Changed(overview[i].type, overview[i].uuid)

\* C3: a record appears once for a root in where_used, at the least number
\* of edges from the root
C3_OncePerRoot ==
    OverviewWritten =>
        \A w1 \in where_used : \A w2 \in where_used :
            (w1.typex = w2.typex /\ w1.uuidx = w2.uuidx /\ w1.root = w2.root)
                => w1.level = w2.level

\* the canonical rank of a record type
CanonicalRank(t) ==
    CASE t = "part" -> 0
      [] t = "entity" -> 1
      [] t = "unit" -> 2
      [] t = "symbol" -> 3
      [] t = "package" -> 4
      [] t = "model_3d" -> 5
      [] t = "padstack" -> 6

\* C4: the rows of the overview are in non-decreasing order of
\* (root, typeOrder, depth) and typeOrder is the canonical rank of the type
C4_OverviewOrder ==
    /\ \A i \in 1..Len(overview) :
          overview[i].type_order = CanonicalRank(overview[i].type)
    /\ \A i \in 1..Len(overview) : \A j \in 1..Len(overview) :
          i < j =>
            \/ TextRank(overview[i].root) < TextRank(overview[j].root)
            \/ /\ overview[i].root = overview[j].root
               /\ CanonicalRank(overview[i].type) < CanonicalRank(overview[j].type)
            \/ /\ overview[i].root = overview[j].root
               /\ CanonicalRank(overview[i].type) = CanonicalRank(overview[j].type)
               /\ overview[i].level <= overview[j].level

\* an overview of two roots in which a row of a deeper level (a unit)
\* precedes a row of a lower level (a package)
C4_Witness ==
    /\ OverviewWritten
    /\ \E i \in 1..Len(overview) : \E j \in 1..Len(overview) :
          /\ i < j
          /\ overview[i].root = overview[j].root
          /\ overview[i].level > overview[j].level
    /\ \E i \in 1..Len(overview) : overview[i].root = "P1"
    /\ \E i \in 1..Len(overview) : overview[i].root = "P2"
    /\ \E i \in 1..Len(overview) : overview[i].type = "symbol"
    /\ \E i \in 1..Len(overview) : overview[i].type = "model_3d"

\* C5: rows of the overview with equal (root, typeOrder, depth) are in
\* natural order of their names
C5_TiesInNaturalOrder ==
    \A i \in 1..Len(overview) : \A j \in 1..Len(overview) :
        ( /\ i < j
          /\ overview[i].root = overview[j].root
          /\ overview[i].type_order = overview[j].type_order
          /\ overview[i].level = overview[j].level )
        => strcmp_natural(GetString(overview[i].name),
                          GetString(overview[j].name)) <= 0

\* where main() is once "Items not associated with any part" is written
NotAssociatedWritten ==
    pc \in {"derived_parts", "details", "units", "packages", "done"}

InOverview(t, u) ==
    \E i \in 1..Len(overview) : overview[i].type = t /\ overview[i].uuid = u

\* C6: every changed record that is not a part and has no row of its type
\* and uuid in the display tree is listed as not associated with any part
C6_OrphansListed ==
    NotAssociatedWritten =>
        \A g \in git_files_view :
            (g.type # "part" /\ ~InOverview(g.type, g.uuid))
                => [type |-> g.type, name |-> g.name] \in notassoc_out

\* padstack S10 is changed and not in the tree of the changed part, whose
\* package has padstack S2: S10 is listed, S2 is not
C6_Witness ==
    /\ NotAssociatedWritten
    /\ Changed("padstack", "S10") /\ ~InOverview("padstack", "S10")
    /\ InOverview("padstack", "S2")
    /\ [type |-> "padstack", name |-> "S10"] \in notassoc_out

\* where main() is once both lists of the change resolution are written
Resolved == pc \notin {"items", "nonitems"}

\* the State column for a change kind
StateText(status) ==
    IF status = 1 THEN <<"New">>
    ELSE IF status = 3 THEN <<"Modified">>
    ELSE <<"Unknown (", status, ")">>

\* C7: a change entry gives one item row per lookup row of its path, with
\* the record's type, uuid and name and the entry's change kind; an entry
\* without lookup row is listed as non-item; no entry is in neither list
C7_ChangeResolution ==
    Resolved =>
        \A e \in git_files :
            /\ \A l \in Lookup :
                  l.filename = e.git_filename =>
                      [state |-> StateText(e.status), type |-> l.type,
                       uuid |-> l.uuid, name |-> l.name,
                       filename |-> l.filename] \in items_out
            /\ (\A l \in Lookup : l.filename # e.git_filename)
                  => e.git_filename \in nonitems_out
            /\ \/ \E r \in items_out : r.filename = e.git_filename
               \/ e.git_filename \in nonitems_out

\* a deleted item and a file the pool does not know: one item row with
\* state Unknown (2) and one non-item path
C7_Witness ==
    /\ Resolved
    /\ \E r \in items_out : r.state = <<"Unknown (", 2, ")">>
    /\ "README.md" \in nonitems_out
    /\ Cardinality(git_files) = 2

\* C8: the recursion of the derived-parts tree stops when a part comes up
\* again on its own chain of bases: no row is further from its root than
\* there are parts
C8_DerivationStops ==
    \A w \in derived_where_used : w.level < Cardinality(parts)

\* C9: when a row of the tree names a record that all_items_view does not
\* have, the overview has a warning line for it
C9_WarningForMissingRecord ==
    OverviewWritten =>
        ( (\E i \in 1..Len(overview) : overview[i].name = NULL)
          => \E i \in 1..Len(overview) : OverviewLine(overview[i]).kind = "warning" )

\* the change set and the pool of the scenario: R1 alone is modified, it has
\* no base, and its entity, unit and package are in the pool
ScenarioR1 ==
    /\ git_files = {[git_filename |-> "parts/R1.json", status |-> GIT_DELTA_MODIFIED]}
    /\ BaseOf("P1") = NIL
    /\ dependencies = WellFormedDeps

LevelsOf(t, u) ==
    { overview[i].level : i \in { k \in 1..Len(overview) :
                                    overview[k].type = t /\ overview[k].uuid = u } }

ScenarioR1Closure ==
    /\ Roots = {"P1"}
    /\ \A r \in { <<"entity", "E1">>, <<"unit", "U1">>, <<"symbol", "Y1">>,
                  <<"symbol", "Y2">>, <<"package", "K1">> } :
          /\ LevelsOf(r[1], r[2]) # {}
          /\ LevelsOf(r[1], r[2]) \subseteq 1..3

\* C10 as stated: in the scenario one package image and at least one symbol
\* image are written
C10_ScenarioR1Images ==
    (ScenarioR1 /\ pc = "done") =>
        /\ ScenarioR1Closure
        /\ Cardinality({ f \in images : f[1] = "pkg" }) = 1
        /\ Cardinality({ f \in images : f[1] = "sym" }) >= 1

\* C10 as amended: in the scenario R1 is the only root, its entity, unit,
\* symbols and package are in the closure at depths 1 to 3, and no image is
\* written, because only changed units and packages are drawn
C10_ScenarioR1NoImages ==
    (ScenarioR1 /\ pc = "done") =>
        /\ ScenarioR1Closure
        /\ images = {}

C10_Witness ==
    /\ ScenarioR1
    /\ pc = "done"
    /\ Len(overview) >= 6

\* the change set and the pool of the scenario: the base part R1 alone is
\* modified and R2, its only derived part, is not
ScenarioBaseChild ==
    /\ git_files = {[git_filename |-> "parts/R1.json", status |-> GIT_DELTA_MODIFIED]}
    /\ BaseOf("P1") = NIL
    /\ BaseOf("P2") = "P1"

\* where main() is once it is past the "Derived parts" section
DerivedPartsPassed == pc \in {"details", "units", "packages", "done"}

\* C11: in the scenario the report shows the derived-parts tree: R1 at
\* depth 0 in bold and R2 at depth 1 not in bold
C11_DerivedTreeShown ==
    (ScenarioBaseChild /\ DerivedPartsPassed) =>
        derived_out = { [indent |-> 0, name |-> "R1", bold |-> TRUE],
                        [indent |-> 1, name |-> "R2", bold |-> FALSE] }

\* the symbols and packages the run draws: those of the changed units and
\* the changed packages
DrawnSymbols == { y \in symbols : Changed("unit", y.unit) }

DrawnPackages == { i.uuid : i \in { j \in all_items_view :
                                      j.type = "package" /\ Changed("package", j.uuid) } }

\* C12: a drawn package gives the one file pkg_<uuid>.png, a drawn symbol
\* without text placements the one file sym_<uuid>.png, a drawn symbol with
\* text placements the eight files sym_<uuid>_<m|n><angle>.png, and no two
\* of the drawings share a file name
C12_ImageNames ==
    pc = "done" =>
        /\ \A u \in DrawnPackages :
              { f \in images : f[1] = "pkg" /\ f[2] = u } = { <<"pkg", u>> }
        /\ \A y \in DrawnSymbols :
              LET files == { f \in images : f[1] = "sym" /\ f[2] = y.uuid }
              IN  IF y.text_placements
                  THEN /\ files = { <<"sym", y.uuid, m, a>> :
                                      m \in {"n", "m"}, a \in {0, 90, 180, 270} }
                       /\ Cardinality(files) = 8
                  ELSE files = { <<"sym", y.uuid>> }
        /\ Cardinality(images) =
              Cardinality(DrawnPackages)
              + Cardinality({ y \in DrawnSymbols : ~y.text_placements })
              + 8 * Cardinality({ y \in DrawnSymbols : y.text_placements })

\* a changed unit with a symbol of each kind and a changed package: ten
\* image files
C12_Witness ==
    /\ pc = "done"
    /\ Changed("unit", "U1") /\ Changed("package", "K1")
    /\ Cardinality(images) = 10

\* C13: the image surface has the width and height of the ink extents plus
\* the margin the caller asked for (cut to whole device units), the
\* recording is painted at minus the minimum corner of the extents, and an
\* empty recording gives a surface too
C13_SurfaceSize ==
    pc = "rasterized" =>
        LET e == InkExtents(recording)
            m == grow \div HalfUnit
        IN  /\ isurf.width = (e.width + m) \div 2
            /\ isurf.height = (e.height + m) \div 2
            /\ isurf.src_x = -e.x0
            /\ isurf.src_y = -e.y0
            /\ isurf.width >= 0 /\ isurf.height >= 0

\* the records the recursion of parts_tree can come to: the roots and the
\* two ends of every row of dependencies
ClosureRefs ==
    { <<"part", u>> : u \in Roots }
    \cup { <<d.type, d.uuid>> : d \in dependencies }
    \cup { <<d.dep_type, d.dep_uuid>> : d \in dependencies }

\* C14: the recursion of where_used comes to an end for every dependencies
\* table: it adds no row further from its root than a path without
\* repetition can be, which is less than the number of records
C14_ClosureTerminates ==
    Seeded => \A w \in where_used : w.level < Cardinality(ClosureRefs)

\* C15: no changed path is both in the table of items and in the list of
\* non-items
C15_ListsDisjoint ==
    Resolved => \A r \in items_out : r.filename \notin nonitems_out

\* whether the overview has a row for a changed record: a row of its type
\* and uuid or, for a model file, the model_3d row that names the file
HasTreeRow(g) ==
    IF g.type = "model_3d"
    THEN \E i \in 1..Len(overview) :
            overview[i].type = "model_3d" /\ overview[i].name = g.filename
    ELSE InOverview(g.type, g.uuid)

\* C16: a changed record with a row in the display tree is not listed as
\* not associated with any part
C16_TreeRowsNotOrphans ==
    NotAssociatedWritten =>
        \A g \in git_files_view :
            HasTreeRow(g) => [type |-> g.type, name |-> g.name] \notin notassoc_out

====
